---- MODULE Spec2Model ----
(***************************************************************************)
(* Model of the import-cost calculator component                           *)
(* (src/src/components/ImportCalculator.tsx).                              *)
(*                                                                         *)
(* The specifications share the component's state:                         *)
(*   Spec      the component: mount, interval tick, Update Rates click,    *)
(*             completion of the two asynchronous fetches, the form        *)
(*             handlers, Calculate, and unmount, each followed by the      *)
(*             re-render that recomputes `results`;                        *)
(*   SpecCalc  calculateCosts as a function of its free variables          *)
(*             (carValue, engineSize, age, origin, kraData,                *)
(*             shippingRates), drawn from bounded sets;                    *)
(*   SpecPure  calculateCosts called directly, any number of times, on     *)
(*             the same bounded inputs;                                    *)
(*   SpecRefresh  the periodic refreshes of ImportCalculator and of        *)
(*             VehicleShowcase (src/src/components/VehicleShowcase.tsx),   *)
(*             without the form;                                           *)
(*   SpecHero  the slideshow of Hero (src/src/components/Hero.tsx).        *)
(*                                                                         *)
(* JavaScript numbers are modelled as exact rationals (mixed numbers       *)
(* i + n/d), plus the values NaN and undefined: the model captures which   *)
(* terms enter which product and sum, not IEEE-754 rounding.               *)
(***************************************************************************)
EXTENDS Integers, Sequences, FiniteSets, TLC

VARIABLES carValue, engineSize, age, origin, showResults, kraData,
          shippingRates, loading, phase, kraInFlight, shipInFlight,
          lateSetState, consoleErrors,
          kraTimerPending,  \* the fetchKRAData started by the effect or the
                            \* interval has not completed yet
          shipFetched,      \* setShippingRates has been applied at least once
          lastReturn,       \* what the latest direct call of calculateCosts
                            \* returned
          liveArrivals, marketTrends, showcasePhase,  \* VehicleShowcase
          currentSlide, heroPhase,  \* Hero: the slide shown, the lifecycle
          heroLog                   \* the latest handlers of the slideshow,
                                    \* each with the slide it started from

\* the state of ImportCalculator declared with useState
stateVars == <<carValue, engineSize, age, origin, showResults, kraData,
               shippingRates, loading>>

\* the state of VehicleShowcase and its position in its lifecycle
showcaseVars == <<liveArrivals, marketTrends, showcasePhase>>

\* the state of Hero, its position in its lifecycle and the handler log
heroVars == <<currentSlide, heroPhase, heroLog>>

vars == <<carValue, engineSize, age, origin, showResults, kraData,
          shippingRates, loading, phase, kraInFlight, shipInFlight,
          lateSetState, consoleErrors, kraTimerPending, shipFetched,
          lastReturn, liveArrivals, marketTrends, showcasePhase,
          currentSlide, heroPhase, heroLog>>

(***************************************************************************)
(* Bounds of the model.                                                    *)
(***************************************************************************)
\* longest carValue string handed to calculateCosts in SpecCalc
MaxLen == 2
\* longest carValue string the user types in Spec
MaxTyped == 1
\* most continuations of fetchKRAData pending at a time
MaxInFlight == 2
\* latest reading of the clock (new Date())
MaxTime == 1
\* slideshow handlers kept in heroLog
MaxLog == 2

(***************************************************************************)
(* Numbers.                                                                *)
(***************************************************************************)
RECURSIVE GCD(_, _)
GCD(a, b) == IF b = 0 THEN a ELSE GCD(b, a % b)

LCM(a, b) == (a \div GCD(a, b)) * b

\* the number num/den, den > 0, as a normalised mixed number
Frac(num, den) ==
  LET r == num % den
      g == GCD(den, r)
  IN  [t |-> "num", i |-> num \div den, n |-> r \div g, d |-> den \div g]

Whole(k) == [t |-> "num", i |-> k, n |-> 0, d |-> 1]

NaN == [t |-> "NaN", i |-> 0, n |-> 0, d |-> 1]

Undefined == [t |-> "undefined", i |-> 0, n |-> 0, d |-> 1]

IsNum(x) == x.t = "num"

\* x + y of JavaScript: NaN as soon as an operand is no number
Add(x, y) ==
  IF ~(IsNum(x) /\ IsNum(y)) THEN NaN
  ELSE IF x.n = 0 /\ y.n = 0 THEN Whole(x.i + y.i)
  ELSE LET l == LCM(x.d, y.d)
           s == x.n * (l \div x.d) + y.n * (l \div y.d)
           f == Frac(s, l)
       IN  [t |-> "num", i |-> x.i + y.i + f.i, n |-> f.n, d |-> f.d]

\* x * y of JavaScript
Mul(x, y) ==
  IF ~(IsNum(x) /\ IsNum(y)) THEN NaN
  ELSE IF x.n = 0 /\ y.n = 0 THEN Whole(x.i * y.i)
  ELSE Add(Add(Whole(x.i * y.i), Frac(x.i * y.n, y.d)),
           Add(Frac(y.i * x.n, x.d), Frac(x.n * y.n, x.d * y.d)))

\* ToBoolean of a number or undefined: false for undefined, NaN, +0 and -0
Truthy(x) == IsNum(x) /\ ~(x.i = 0 /\ x.n = 0)

IsPositive(x) == IsNum(x) /\ (x.i > 0 \/ (x.i = 0 /\ x.n > 0))

\* a || b
OrElse(a, b) == IF Truthy(a) THEN a ELSE b

\* -x
Neg(x) ==
  IF ~IsNum(x) THEN NaN
  ELSE IF x.n = 0 THEN Whole(0 - x.i)
  ELSE [t |-> "num", i |-> 0 - x.i - 1, n |-> x.d - x.n, d |-> x.d]

(***************************************************************************)
(* parseFloat.  A string is a sequence of one-character strings.  The      *)
(* operator follows the StrDecimalLiteral prefix rule: leading white space *)
(* is skipped, then an optional sign, digits, and an optional "." with     *)
(* digits; parsing stops at the first character that does not continue     *)
(* the literal, and the result is NaN when no digit was read.  Exponents   *)
(* and "Infinity" need characters outside Alphabet and are not modelled.   *)
(***************************************************************************)
Digits == {"0", "1", "2", "3", "4", "5", "6", "7", "8", "9"}

DigitVal(c) ==
  CASE c = "0" -> 0 [] c = "1" -> 1 [] c = "2" -> 2 [] c = "3" -> 3
    [] c = "4" -> 4 [] c = "5" -> 5 [] c = "6" -> 6 [] c = "7" -> 7
    [] c = "8" -> 8 [] c = "9" -> 9

RECURSIVE Pow10(_)
Pow10(k) == IF k = 0 THEN 1 ELSE 10 * Pow10(k - 1)

\* first position at or after k whose character is not in cs (Len(s)+1 if none)
RECURSIVE RunEnd(_, _, _)
RunEnd(s, k, cs) ==
  IF k <= Len(s) /\ s[k] \in cs THEN RunEnd(s, k + 1, cs) ELSE k

\* value of the digit string s[a] .. s[b-1]
RECURSIVE DigitsValue(_, _, _)
DigitsValue(s, a, b) ==
  IF b <= a THEN 0 ELSE 10 * DigitsValue(s, a, b - 1) + DigitVal(s[b - 1])

parseFloat(s) ==
  LET p0 == RunEnd(s, 1, {" "})
      signed == p0 <= Len(s) /\ s[p0] \in {"+", "-"}
      negative == signed /\ s[p0] = "-"
      p1 == IF signed THEN p0 + 1 ELSE p0
      p2 == RunEnd(s, p1, Digits)
      dotted == p2 <= Len(s) /\ s[p2] = "."
      p3 == IF dotted THEN RunEnd(s, p2 + 1, Digits) ELSE p2
      nInt == p2 - p1
      nFrac == IF dotted THEN p3 - (p2 + 1) ELSE 0
      magnitude == Add(Whole(DigitsValue(s, p1, p2)),
                       Frac(DigitsValue(s, p2 + 1, p2 + 1 + nFrac), Pow10(nFrac)))
  IN  IF nInt = 0 /\ nFrac = 0 THEN NaN
      ELSE IF negative THEN Neg(magnitude) ELSE magnitude

(***************************************************************************)
(* The option tables and fees of the component.                            *)
(***************************************************************************)
engineSizeOptions ==
  << [value |-> "1000", multiplier |-> Frac(10, 10)],
     [value |-> "1500", multiplier |-> Frac(11, 10)],
     [value |-> "2000", multiplier |-> Frac(12, 10)],
     [value |-> "2500", multiplier |-> Frac(13, 10)],
     [value |-> "3000", multiplier |-> Frac(14, 10)],
     [value |-> "3500", multiplier |-> Frac(15, 10)],
     [value |-> "4000", multiplier |-> Frac(16, 10)] >>

\* a variant of ageOptions whose 3-5 years factor is above the 2-3 years one
ageOptionsOutOfOrder ==
  << [value |-> "1", depreciationFactor |-> Frac(100, 100)],
     [value |-> "2", depreciationFactor |-> Frac(95, 100)],
     [value |-> "3", depreciationFactor |-> Frac(90, 100)],
     [value |-> "5", depreciationFactor |-> Frac(95, 100)],
     [value |-> "8", depreciationFactor |-> Frac(80, 100)],
     [value |-> "10", depreciationFactor |-> Frac(75, 100)] >>

ageOptions ==
  << [value |-> "1", depreciationFactor |-> Frac(100, 100)],
     [value |-> "2", depreciationFactor |-> Frac(95, 100)],
     [value |-> "3", depreciationFactor |-> Frac(90, 100)],
     [value |-> "5", depreciationFactor |-> Frac(85, 100)],
     [value |-> "8", depreciationFactor |-> Frac(80, 100)],
     [value |-> "10", depreciationFactor |-> Frac(75, 100)] >>

clearingFees == 85000
inspectionFees == 15000
documentationFees == 25000
kraFees == 5000
ntsa_fees == 3000
portHandling == 12000
defaultShippingCost == 150000
\* a variant of serviceFeeRate: a 5% service fee
serviceFeeRateFivePercent == Frac(5, 100)

serviceFeeRate == Frac(3, 100)

\* find that falls back to the first option instead of undefined
FindOptionOrFirst(options, v) ==
  IF \E k \in DOMAIN options : options[k].value = v
  THEN CHOOSE k \in DOMAIN options :
         /\ options[k].value = v
         /\ \A j \in 1..(k - 1) : options[j].value # v
  ELSE 1

\* Array.prototype.find on the value field: the index of the first option
\* whose value === v, 0 when find returns undefined
FindOption(options, v) ==
  IF \E k \in DOMAIN options : options[k].value = v
  THEN CHOOSE k \in DOMAIN options :
         /\ options[k].value = v
         /\ \A j \in 1..(k - 1) : options[j].value # v
  ELSE 0

\* shippingRates[origin]: undefined when the table has no such key
Lookup(table, key) == IF key \in DOMAIN table THEN table[key] ELSE Undefined

(***************************************************************************)
(* calculateCosts, in the order of its statements.                         *)
(***************************************************************************)
Null == [null |-> TRUE]

\* line 107: if (!value || !engineSize || !age) return null
MissingInput(value, es, ag) == ~Truthy(value) \/ es = "" \/ ag = ""

\* line 112: if (!selectedEngine || !selectedAge) return null
UnknownBand(e, a) == e = 0 \/ a = 0

\* the adjustment without the age depreciation
AdjustedValueWithoutDepreciation(value, multiplier, depreciationFactor) ==
  Mul(value, multiplier)

\* the adjustment with the engine multiplier applied twice
AdjustedValueMultiplierTwice(value, multiplier, depreciationFactor) ==
  Mul(Mul(Mul(value, multiplier), multiplier), depreciationFactor)

\* line 115
AdjustedValue(value, multiplier, depreciationFactor) ==
  Mul(Mul(value, multiplier), depreciationFactor)

\* VAT on the adjusted value alone
VatOnAdjustedValueOnly(adjustedValue, importDuty, exciseDuty, vatRate) ==
  Mul(adjustedValue, vatRate)

\* line 119
Vat(adjustedValue, importDuty, exciseDuty, vatRate) ==
  Mul(Add(Add(adjustedValue, importDuty), exciseDuty), vatRate)

\* the table lookup without the || fallback
ShippingCostNoFallback(table, og) == Lookup(table, og)

\* the default taken whatever the table holds
ShippingCostAlwaysDefault(table, og) == Whole(defaultShippingCost)

\* line 121
ShippingCost(table, og) == OrElse(Lookup(table, og), Whole(defaultShippingCost))

\* the total with the port-handling fee left out
TotalCostWithoutPortHandling(adjustedValue, importDuty, exciseDuty, vat, shippingCost, ourServiceFee) ==
  Add(Add(Add(Add(Add(Add(Add(Add(Add(Add(
    adjustedValue, importDuty), exciseDuty), vat), shippingCost),
    Whole(clearingFees)), Whole(inspectionFees)), Whole(documentationFees)),
    Whole(kraFees)), Whole(ntsa_fees)), ourServiceFee)

\* lines 130-132
TotalCost(adjustedValue, importDuty, exciseDuty, vat, shippingCost, ourServiceFee) ==
  Add(Add(Add(Add(Add(Add(Add(Add(Add(Add(Add(
    adjustedValue, importDuty), exciseDuty), vat), shippingCost),
    Whole(clearingFees)), Whole(inspectionFees)), Whole(documentationFees)),
    Whole(kraFees)), Whole(ntsa_fees)), Whole(portHandling)), ourServiceFee)

Breakdown(value, e, a, og, kra, table) ==
  LET multiplier == engineSizeOptions[e].multiplier
      depreciationFactor == ageOptions[a].depreciationFactor
      adjustedValue == AdjustedValue(value, multiplier, depreciationFactor)
      importDuty == Mul(adjustedValue, kra.importDutyRate)
      exciseDuty == Mul(adjustedValue, kra.exciseDutyRate)
      vat == Vat(adjustedValue, importDuty, exciseDuty, kra.vatRate)
      shippingCost == ShippingCost(table, og)
      ourServiceFee == Mul(adjustedValue, serviceFeeRate)
  IN  [ originalValue |-> value,
        adjustedValue |-> adjustedValue,
        importDuty |-> importDuty,
        exciseDuty |-> exciseDuty,
        vat |-> vat,
        shippingCost |-> shippingCost,
        clearingFees |-> Whole(clearingFees),
        inspectionFees |-> Whole(inspectionFees),
        documentationFees |-> Whole(documentationFees),
        kraFees |-> Whole(kraFees),
        ntsa_fees |-> Whole(ntsa_fees),
        portHandling |-> Whole(portHandling),
        ourServiceFee |-> ourServiceFee,
        totalCost |-> TotalCost(adjustedValue, importDuty, exciseDuty, vat,
                                shippingCost, ourServiceFee),
        engineMultiplier |-> multiplier,
        depreciationFactor |-> depreciationFactor ]

calculateCosts(cv, es, ag, og, kra, table) ==
  LET value == parseFloat(cv)
      e == FindOption(engineSizeOptions, es)
      a == FindOption(ageOptions, ag)
  IN  IF MissingInput(value, es, ag) THEN Null
      ELSE IF UnknownBand(e, a) THEN Null
      ELSE Breakdown(value, e, a, og, kra, table)

(***************************************************************************)
(* The component.                                                          *)
(***************************************************************************)
\* characters of a carValue string
Alphabet == {"0", "2", "-", "a"}

RECURSIVE StringsOfLen(_)
StringsOfLen(k) ==
  IF k = 0 THEN {<<>>}
  ELSE {Append(s, c) : s \in StringsOfLen(k - 1), c \in Alphabet}

StringsUpTo(k) == UNION {StringsOfLen(j) : j \in 0..k}

\* a valid floating-point number of HTML: "-"? digits ("." digits)?
IsValidNumberString(s) ==
  LET p1 == IF Len(s) >= 1 /\ s[1] = "-" THEN 2 ELSE 1
      p2 == RunEnd(s, p1, Digits)
      dotted == p2 <= Len(s) /\ s[p2] = "."
      p3 == IF dotted THEN RunEnd(s, p2 + 1, Digits) ELSE p2
  IN  /\ p3 = Len(s) + 1
      /\ (p2 > p1 \/ dotted)
      /\ (dotted => p3 > p2 + 1)

\* what e.target.value of the number input can be: the empty string or a
\* valid floating-point number
TypedValues == {s \in StringsUpTo(MaxTyped) : s = <<>> \/ IsValidNumberString(s)}

\* values of the engine-size and age <select> the user picks: the
\* placeholder and one of the options
EngineChoices == {"", "1500"}

AgeChoices == {"", "2"}

\* the three origin buttons
OriginChoices == {"japan", "uk", "uae"}

\* outcomes of Math.random(), a number in [0, 1)
RandomDraws == {Frac(0, 1), Frac(1, 2)}

\* const results = showResults ? calculateCosts() : null, evaluated by every
\* render on the state the handler left
ResultsOf(shown, cv, es, ag, og, kra, table) ==
  IF shown THEN calculateCosts(cv, es, ag, og, kra, table) ELSE Null

\* results as the current render has it
results ==
  ResultsOf(showResults, carValue, engineSize, age, origin, kraData, shippingRates)

\* what the results panel renders:
\* !showResults ? placeholder : results ? breakdown : null
ResultsPanel ==
  IF ~showResults THEN "placeholder"
  ELSE IF results # Null THEN "breakdown"
  ELSE "nothing"

\* results as the render after a step has it
resultsAfter ==
  ResultsOf(showResults', carValue', engineSize', age', origin', kraData',
            shippingRates')

\* lastReturn before calculateCosts has been called directly
NotCalled == [notCalled |-> TRUE]

Init ==
  /\ carValue = <<>>
  /\ engineSize = ""
  /\ age = ""
  /\ origin = "japan"
  /\ showResults = FALSE
  /\ kraData = [importDutyRate |-> Frac(25, 100), exciseDutyRate |-> Frac(25, 100),
                vatRate |-> Frac(16, 100), lastUpdated |-> 0]
  /\ shippingRates = [o \in OriginChoices |->
                        CASE o = "japan" -> Whole(150000)
                          [] o = "uk" -> Whole(200000)
                          [] o = "uae" -> Whole(180000)]
  /\ loading = FALSE
  /\ phase = "rendered"
  /\ kraInFlight = 0
  /\ shipInFlight = 0
  /\ lateSetState = FALSE
  /\ consoleErrors = <<>>
  /\ kraTimerPending = FALSE
  /\ shipFetched = FALSE
  /\ lastReturn = NotCalled
  /\ liveArrivals = <<>>
  /\ marketTrends = <<>>
  /\ showcasePhase = "rendered"
  /\ currentSlide = 0
  /\ heroPhase = "rendered"
  /\ heroLog = <<>>

\* useEffect on mount: fetchKRAData() runs to its await (setLoading(true)),
\* fetchShippingRates() runs to its await, setInterval arms the timer
Mount ==
  /\ phase = "rendered"
  /\ phase' = "mounted"
  /\ loading' = TRUE
  /\ kraInFlight' = kraInFlight + 1
  /\ shipInFlight' = shipInFlight + 1
  /\ kraTimerPending' = TRUE
  /\ UNCHANGED <<carValue, engineSize, age, origin, showResults, kraData,
                 shippingRates, lateSetState, consoleErrors>>
  /\ UNCHANGED <<shipFetched, lastReturn, showcaseVars, heroVars>>

\* a variant of IntervalTick that puts the default rate in every entry of
\* shippingRates while the new rates are awaited
IntervalTickResettingRates ==
  /\ phase = "mounted"
  /\ ~kraTimerPending
  /\ shipInFlight = 0
  /\ kraInFlight < MaxInFlight
  /\ loading' = TRUE
  /\ kraInFlight' = kraInFlight + 1
  /\ shipInFlight' = shipInFlight + 1
  /\ kraTimerPending' = TRUE
  /\ shippingRates' = [o \in OriginChoices |-> Whole(defaultShippingCost)]
  /\ UNCHANGED <<carValue, engineSize, age, origin, showResults, kraData,
                 phase, lateSetState, consoleErrors>>
  /\ UNCHANGED <<shipFetched, lastReturn, showcaseVars, heroVars>>

\* the interval callback, every 5 minutes: both fetches start.  The fetches
\* the effect or the previous callback started await 1000 ms and 500 ms
\* timers that were armed earlier and are due earlier, so they have completed.
IntervalTick ==
  /\ phase = "mounted"
  /\ ~kraTimerPending
  /\ shipInFlight = 0
  /\ kraInFlight < MaxInFlight
  /\ loading' = TRUE
  /\ kraInFlight' = kraInFlight + 1
  /\ shipInFlight' = shipInFlight + 1
  /\ kraTimerPending' = TRUE
  /\ UNCHANGED <<carValue, engineSize, age, origin, showResults, kraData,
                 shippingRates, phase, lateSetState, consoleErrors>>
  /\ UNCHANGED <<shipFetched, lastReturn, showcaseVars, heroVars>>

\* the Update Rates button (disabled while loading): fetchKRAData starts
UpdateRatesClick ==
  /\ phase = "mounted"
  /\ ~loading
  /\ kraInFlight < MaxInFlight
  /\ loading' = TRUE
  /\ kraInFlight' = kraInFlight + 1
  /\ UNCHANGED <<carValue, engineSize, age, origin, showResults, kraData,
                 shippingRates, phase, shipInFlight, lateSetState, consoleErrors>>
  /\ UNCHANGED <<kraTimerPending, shipFetched, lastReturn, showcaseVars, heroVars>>

\* a variant of FetchedKRAData with the rates in percent
FetchedKRADataInPercent(t) ==
  [importDutyRate |-> Whole(25), exciseDutyRate |-> Whole(25),
   vatRate |-> Whole(16), lastUpdated |-> t]

\* the object fetchKRAData passes to setKRAData at clock reading t
FetchedKRAData(t) ==
  [importDutyRate |-> Frac(25, 100), exciseDutyRate |-> Frac(25, 100),
   vatRate |-> Frac(16, 100), lastUpdated |-> t]

\* fetchKRAData after its await: setKRAData(...), then finally setLoading(false).
\* The timer of the await is not cleared by the effect's cleanup, so the
\* continuation also runs after unmount, where React drops the updates.
\* The completing call is the one the effect or the interval started, or one
\* the button started.
KRAFetchResolve ==
  /\ kraInFlight > 0
  /\ kraInFlight' = kraInFlight - 1
  /\ \E byTimer \in BOOLEAN :
       /\ byTimer => kraTimerPending
       /\ ~byTimer => kraInFlight > (IF kraTimerPending THEN 1 ELSE 0)
       /\ kraTimerPending' = (kraTimerPending /\ ~byTimer)
  /\ IF phase = "mounted"
     THEN /\ \E t \in kraData.lastUpdated..MaxTime :
               kraData' = FetchedKRAData(t)
          /\ loading' = FALSE
          /\ UNCHANGED lateSetState
          /\ UNCHANGED <<carValue, engineSize, age, origin, showResults,
                         shippingRates, phase, shipInFlight, consoleErrors>>
     ELSE /\ lateSetState' = TRUE
          /\ UNCHANGED <<carValue, engineSize, age, origin, showResults, kraData,
                         shippingRates, loading, phase, shipInFlight,
                         consoleErrors>>
  /\ UNCHANGED <<shipFetched, lastReturn, showcaseVars, heroVars>>

\* a variant of FetchedShippingRates whose objects have no uae entry
FetchedShippingRatesWithoutUae ==
  { [o \in {"japan", "uk"} |->
       CASE o = "japan" -> Add(Whole(150000), Mul(r1, Whole(20000)))
         [] o = "uk" -> Add(Whole(200000), Mul(r2, Whole(25000)))]
    : r1 \in RandomDraws, r2 \in RandomDraws }

\* the objects fetchShippingRates can pass to setShippingRates: three draws
FetchedShippingRates ==
  { [o \in OriginChoices |->
       CASE o = "japan" -> Add(Whole(150000), Mul(r1, Whole(20000)))
         [] o = "uk" -> Add(Whole(200000), Mul(r2, Whole(25000)))
         [] o = "uae" -> Add(Whole(180000), Mul(r3, Whole(22000)))]
    : r1 \in RandomDraws, r2 \in RandomDraws, r3 \in RandomDraws }

\* fetchShippingRates after its await: setShippingRates(...)
ShippingFetchResolve ==
  /\ shipInFlight > 0
  /\ shipInFlight' = shipInFlight - 1
  /\ IF phase = "mounted"
     THEN /\ \E table \in FetchedShippingRates : shippingRates' = table
          /\ shipFetched' = TRUE
          /\ UNCHANGED lateSetState
          /\ UNCHANGED <<carValue, engineSize, age, origin, showResults, kraData,
                         loading, phase, kraInFlight, consoleErrors>>
     ELSE /\ lateSetState' = TRUE
          /\ UNCHANGED <<carValue, engineSize, age, origin, showResults, kraData,
                         shippingRates, loading, phase, kraInFlight,
                         consoleErrors, shipFetched>>
  /\ UNCHANGED <<kraTimerPending, lastReturn, showcaseVars, heroVars>>

\* a variant of SetCarValue that hides the results when the value is edited
SetCarValueHidingResults ==
  /\ phase = "mounted"
  /\ \E v \in TypedValues : carValue' = v
  /\ showResults' = FALSE
  /\ UNCHANGED <<engineSize, age, origin, kraData, shippingRates,
                 loading, phase, kraInFlight, shipInFlight, lateSetState,
                 consoleErrors>>
  /\ UNCHANGED <<kraTimerPending, shipFetched, lastReturn, showcaseVars, heroVars>>

\* onChange of the number input
SetCarValue ==
  /\ phase = "mounted"
  /\ \E v \in TypedValues : carValue' = v
  /\ UNCHANGED <<engineSize, age, origin, showResults, kraData, shippingRates,
                 loading, phase, kraInFlight, shipInFlight, lateSetState,
                 consoleErrors>>
  /\ UNCHANGED <<kraTimerPending, shipFetched, lastReturn, showcaseVars, heroVars>>

\* onChange of the engine-size select
SetEngineSize ==
  /\ phase = "mounted"
  /\ \E v \in EngineChoices : engineSize' = v
  /\ UNCHANGED <<carValue, age, origin, showResults, kraData, shippingRates,
                 loading, phase, kraInFlight, shipInFlight, lateSetState,
                 consoleErrors>>
  /\ UNCHANGED <<kraTimerPending, shipFetched, lastReturn, showcaseVars, heroVars>>

\* onChange of the age select
SetAge ==
  /\ phase = "mounted"
  /\ \E v \in AgeChoices : age' = v
  /\ UNCHANGED <<carValue, engineSize, origin, showResults, kraData, shippingRates,
                 loading, phase, kraInFlight, shipInFlight, lateSetState,
                 consoleErrors>>
  /\ UNCHANGED <<kraTimerPending, shipFetched, lastReturn, showcaseVars, heroVars>>

\* onClick of an origin button
SetOrigin ==
  /\ phase = "mounted"
  /\ \E v \in OriginChoices : origin' = v
  /\ UNCHANGED <<carValue, engineSize, age, showResults, kraData, shippingRates,
                 loading, phase, kraInFlight, shipInFlight, lateSetState,
                 consoleErrors>>
  /\ UNCHANGED <<kraTimerPending, shipFetched, lastReturn, showcaseVars, heroVars>>

\* the Calculate button, disabled={!carValue || !engineSize || !age}
handleCalculate ==
  /\ phase = "mounted"
  /\ carValue # <<>>
  /\ engineSize # ""
  /\ age # ""
  /\ showResults' = TRUE
  /\ UNCHANGED <<carValue, engineSize, age, origin, kraData, shippingRates,
                 loading, phase, kraInFlight, shipInFlight, lateSetState,
                 consoleErrors>>
  /\ UNCHANGED <<kraTimerPending, shipFetched, lastReturn, showcaseVars, heroVars>>

\* the effect's cleanup: clearInterval(interval), nothing else
Unmount ==
  /\ phase = "mounted"
  /\ phase' = "unmounted"
  /\ UNCHANGED <<carValue, engineSize, age, origin, showResults, kraData,
                 shippingRates, loading, kraInFlight, shipInFlight,
                 lateSetState, consoleErrors>>
  /\ UNCHANGED <<kraTimerPending, shipFetched, lastReturn, showcaseVars, heroVars>>

Next ==
  \/ Mount
  \/ IntervalTick
  \/ UpdateRatesClick
  \/ KRAFetchResolve
  \/ ShippingFetchResolve
  \/ SetCarValue
  \/ SetEngineSize
  \/ SetAge
  \/ SetOrigin
  \/ handleCalculate
  \/ Unmount

Spec == Init /\ [][Next]_vars

(***************************************************************************)
(* VehicleShowcase: the effect that refreshes liveArrivals and             *)
(* marketTrends on mount and every 30 seconds                              *)
(* (src/src/components/VehicleShowcase.tsx).  Time is counted in days.     *)
(***************************************************************************)
\* everything ImportCalculator owns
calculatorVars ==
  <<stateVars, phase, kraInFlight, shipInFlight, lateSetState, consoleErrors,
    kraTimerPending, shipFetched, lastReturn>>

\* const mockArrivals, built at clock reading now (Date.now())
mockArrivals(now) ==
  << [id |-> "1", vessel |-> "MV ASIAN MAJESTY", eta |-> now + 3,
      origin |-> "Japan", vehicleCount |-> 45, status |-> "in_transit"],
     [id |-> "2", vessel |-> "MV EUROPEAN STAR", eta |-> now + 7,
      origin |-> "UK", vehicleCount |-> 32, status |-> "in_transit"],
     [id |-> "3", vessel |-> "MV GULF TRADER", eta |-> now - 2,
      origin |-> "UAE", vehicleCount |-> 28, status |-> "clearing"] >>

\* const trends
trends ==
  << [make |-> "Toyota", trend |-> "up", change |-> "+12%",
      reason |-> "High demand for Land Cruiser"],
     [make |-> "Mercedes-Benz", trend |-> "up", change |-> "+8%",
      reason |-> "New model releases"],
     [make |-> "BMW", trend |-> "stable", change |-> "+2%",
      reason |-> "Steady market"],
     [make |-> "Nissan", trend |-> "up", change |-> "+15%",
      reason |-> "X-Trail popularity"] >>

\* a variant of SetLiveArrivals that keeps the arrivals already listed
SetLiveArrivalsAppending(prev, arrivals) == prev \o arrivals

\* liveArrivals after setLiveArrivals(arrivals)
SetLiveArrivals(prev, arrivals) == arrivals

\* the earliest reading the clock can give: the one the listed ETAs were
\* computed from
ShowcaseClock == IF liveArrivals = <<>> THEN 0 ELSE liveArrivals[1].eta - 3

\* fetchLiveArrivals(); fetchMarketTrends()
ShowcaseRefresh ==
  /\ \E now \in ShowcaseClock..MaxTime :
       liveArrivals' = SetLiveArrivals(liveArrivals, mockArrivals(now))
  /\ marketTrends' = trends

\* useEffect on mount: both fetches run, setInterval arms the timer
ShowcaseMount ==
  /\ showcasePhase = "rendered"
  /\ showcasePhase' = "mounted"
  /\ ShowcaseRefresh
  /\ UNCHANGED <<calculatorVars, heroVars>>

\* the interval callback, every 30 seconds
ShowcaseTick ==
  /\ showcasePhase = "mounted"
  /\ ShowcaseRefresh
  /\ UNCHANGED <<showcasePhase, calculatorVars, heroVars>>

\* the effect's cleanup: clearInterval(interval)
ShowcaseUnmount ==
  /\ showcasePhase = "mounted"
  /\ showcasePhase' = "unmounted"
  /\ UNCHANGED <<liveArrivals, marketTrends, calculatorVars, heroVars>>

\* the periodic refreshes of both components, without the form
NextRefresh ==
  \/ Mount
  \/ IntervalTick
  \/ UpdateRatesClick
  \/ KRAFetchResolve
  \/ ShippingFetchResolve
  \/ Unmount
  \/ ShowcaseMount
  \/ ShowcaseTick
  \/ ShowcaseUnmount

SpecRefresh == Init /\ [][NextRefresh]_vars

(***************************************************************************)
(* Hero: the slideshow (src/src/components/Hero.tsx).  Every handler       *)
(* passes setCurrentSlide an updater of the latest state or an index.      *)
(***************************************************************************)
\* const carSlides, without the image URLs
carSlides ==
  << [brand |-> "Toyota", model |-> "Land Cruiser",
      description |-> "Reliable & Powerful"],
     [brand |-> "Mercedes-Benz", model |-> "E-Class",
      description |-> "Luxury & Elegance"],
     [brand |-> "BMW", model |-> "X5", description |-> "Performance & Style"],
     [brand |-> "Nissan", model |-> "X-Trail", description |-> "Adventure Ready"],
     [brand |-> "Honda", model |-> "CR-V",
      description |-> "Efficiency & Comfort"] >>

\* a % b of JavaScript for b > 0: the sign of the result is that of a
JsRem(a, b) == IF a >= 0 THEN a % b ELSE -((-a) % b)

\* (prev) => (prev + 1) % carSlides.length
NextIndex(prev) == JsRem(prev + 1, Len(carSlides))

\* a variant of PrevIndex without the + carSlides.length
PrevIndexWithoutWrap(prev) == JsRem(prev - 1, Len(carSlides))

\* (prev) => (prev - 1 + carSlides.length) % carSlides.length
PrevIndex(prev) == JsRem(prev - 1 + Len(carSlides), Len(carSlides))

\* heroLog after a handler: the latest MaxLog entries
Logged(op) ==
  LET log == Append(heroLog, [op |-> op, from |-> currentSlide])
  IN  IF Len(log) > MaxLog THEN Tail(log) ELSE log

\* useEffect on mount: setInterval arms the 5-second timer
HeroMount ==
  /\ heroPhase = "rendered"
  /\ heroPhase' = "mounted"
  /\ UNCHANGED <<currentSlide, heroLog, calculatorVars, showcaseVars>>

\* the interval callback
HeroTick ==
  /\ heroPhase = "mounted"
  /\ currentSlide' = NextIndex(currentSlide)
  /\ heroLog' = Logged("tick")
  /\ UNCHANGED <<heroPhase, calculatorVars, showcaseVars>>

\* onClick of the right arrow
nextSlide ==
  /\ heroPhase = "mounted"
  /\ currentSlide' = NextIndex(currentSlide)
  /\ heroLog' = Logged("next")
  /\ UNCHANGED <<heroPhase, calculatorVars, showcaseVars>>

\* onClick of the left arrow
prevSlide ==
  /\ heroPhase = "mounted"
  /\ currentSlide' = PrevIndex(currentSlide)
  /\ heroLog' = Logged("prev")
  /\ UNCHANGED <<heroPhase, calculatorVars, showcaseVars>>

\* onClick of a slide indicator: one button per index of carSlides
IndicatorClick ==
  /\ heroPhase = "mounted"
  /\ \E index \in 0..(Len(carSlides) - 1) : currentSlide' = index
  /\ heroLog' = Logged("indicator")
  /\ UNCHANGED <<heroPhase, calculatorVars, showcaseVars>>

\* the effect's cleanup: clearInterval(timer)
HeroUnmount ==
  /\ heroPhase = "mounted"
  /\ heroPhase' = "unmounted"
  /\ UNCHANGED <<currentSlide, heroLog, calculatorVars, showcaseVars>>

NextHero ==
  \/ HeroMount
  \/ HeroTick
  \/ nextSlide
  \/ prevSlide
  \/ IndicatorClick
  \/ HeroUnmount

SpecHero == Init /\ [][NextHero]_vars

(***************************************************************************)
(* calculateCosts as a function of its free variables.  The inputs range   *)
(* over what the types admit, within the data model of the rate table:     *)
(* duty rates in [0, 1), a VAT rate in (0, 1), positive shipping rates.    *)
(***************************************************************************)
EngineInputs ==
  {"", "9999"} \cup {engineSizeOptions[k].value : k \in DOMAIN engineSizeOptions}

AgeInputs == {"", "4"} \cup {ageOptions[k].value : k \in DOMAIN ageOptions}

OriginInputs == {"japan", "uk", "uae", "china"}

KraInputs ==
  {[importDutyRate |-> i, exciseDutyRate |-> e, vatRate |-> Frac(16, 100),
    lastUpdated |-> 0] : i, e \in {Frac(0, 1), Frac(25, 100)}}

TableInputs ==
  { [o \in {"japan", "uk", "uae"} |->
       CASE o = "japan" -> Whole(150000)
         [] o = "uk" -> Whole(200000)
         [] o = "uae" -> Whole(180000)],
    [o \in {"japan", "uk"} |->
       CASE o = "japan" -> Whole(160000)
         [] o = "uk" -> Whole(150000)] }

\* the declared value of the worked example, 2,500,000, as the input holds it
ExampleValues == {<<"2", "5", "0", "0", "0", "0", "0">>}

InitCalc ==
  /\ carValue \in StringsUpTo(MaxLen) \cup ExampleValues
  /\ engineSize \in EngineInputs
  /\ age \in AgeInputs
  /\ origin \in OriginInputs
  /\ kraData \in KraInputs
  /\ shippingRates \in TableInputs
  /\ showResults = FALSE
  /\ loading = FALSE
  /\ phase = "mounted"
  /\ kraInFlight = 0
  /\ shipInFlight = 0
  /\ lateSetState = FALSE
  /\ consoleErrors = <<>>
  /\ kraTimerPending = FALSE
  /\ shipFetched = FALSE
  /\ lastReturn = NotCalled
  /\ liveArrivals = <<>>
  /\ marketTrends = <<>>
  /\ showcasePhase = "rendered"
  /\ currentSlide = 0
  /\ heroPhase = "rendered"
  /\ heroLog = <<>>

\* calculateCosts() is evaluated on the inputs: from here on `results` is
\* what it returned
CallCalculateCosts ==
  /\ ~showResults
  /\ showResults' = TRUE
  /\ UNCHANGED <<carValue, engineSize, age, origin, kraData, shippingRates,
                 loading, phase, kraInFlight, shipInFlight, lateSetState,
                 consoleErrors>>
  /\ UNCHANGED <<kraTimerPending, shipFetched, lastReturn, showcaseVars, heroVars>>

NextCalc == CallCalculateCosts

SpecCalc == InitCalc /\ [][NextCalc]_vars

(***************************************************************************)
(* calculateCosts called directly, any number of times, on the same free   *)
(* variables.                                                              *)
(***************************************************************************)
\* a variant of InvokeCalculateCosts whose call also shows the results panel
InvokeCalculateCostsShowingResults ==
  /\ lastReturn' = calculateCosts(carValue, engineSize, age, origin, kraData,
                                  shippingRates)
  /\ showResults' = TRUE
  /\ UNCHANGED <<carValue, engineSize, age, origin, kraData, shippingRates,
                 loading, phase, kraInFlight, shipInFlight, lateSetState,
                 consoleErrors, kraTimerPending, shipFetched, showcaseVars, heroVars>>

\* one call of calculateCosts(): the body reads the state, calls no setter and
\* returns null or the breakdown object
InvokeCalculateCosts ==
  /\ lastReturn' = calculateCosts(carValue, engineSize, age, origin, kraData,
                                  shippingRates)
  /\ UNCHANGED <<stateVars, phase, kraInFlight, shipInFlight, lateSetState,
                 consoleErrors, kraTimerPending, shipFetched, showcaseVars, heroVars>>

NextPure == InvokeCalculateCosts

SpecPure == InitCalc /\ [][NextPure]_vars

(***************************************************************************)
(* Vocabulary of the claims.                                               *)
(***************************************************************************)
EngineValues == {engineSizeOptions[k].value : k \in DOMAIN engineSizeOptions}

AgeValues == {ageOptions[k].value : k \in DOMAIN ageOptions}

Returned == showResults /\ results # Null

ValidBands == engineSize \in EngineValues /\ age \in AgeValues

\* the sum of a sequence of numbers
RECURSIVE SumOf(_)
SumOf(xs) == IF xs = <<>> THEN Whole(0) ELSE Add(Head(xs), SumOf(Tail(xs)))

(***************************************************************************)
(* C1 (SpecCalc).  Whenever calculateCosts returns a breakdown, its vat is *)
(* (adjustedValue + importDuty + exciseDuty) x vatRate, and this differs   *)
(* from adjustedValue x vatRate whenever importDutyRate or exciseDutyRate  *)
(* is nonzero and adjustedValue > 0 (vatRate ranges over (0, 1)).          *)
(***************************************************************************)
C1_VatOnDutyInclusiveBase ==
  LET r == results IN
  (showResults /\ r # Null) =>
    /\ r.vat = Mul(SumOf(<<r.adjustedValue, r.importDuty, r.exciseDuty>>),
                   kraData.vatRate)
    /\ ( /\ Truthy(kraData.importDutyRate) \/ Truthy(kraData.exciseDutyRate)
         /\ IsPositive(r.adjustedValue) )
       => r.vat # Mul(r.adjustedValue, kraData.vatRate)

C1_Witness ==
  LET r == results IN
  /\ showResults /\ r # Null
  /\ Truthy(kraData.importDutyRate)
  /\ ~Truthy(kraData.exciseDutyRate)
  /\ IsPositive(r.adjustedValue)
  /\ r.vat # Mul(r.adjustedValue, kraData.vatRate)

(***************************************************************************)
(* C2 (SpecCalc).  In every breakdown returned, totalCost is the sum of    *)
(* the returned fields adjustedValue, importDuty, exciseDuty, vat,         *)
(* shippingCost, the six fixed fees and ourServiceFee, each once, and the  *)
(* six fee fields hold the amounts of the fee schedule.                    *)
(***************************************************************************)
C2_TotalIsSumOfReturnedFields ==
  LET r == results IN
  (showResults /\ r # Null) =>
    /\ r.totalCost =
         SumOf(<<r.ourServiceFee, r.portHandling, r.ntsa_fees, r.kraFees,
                 r.documentationFees, r.inspectionFees, r.clearingFees,
                 r.shippingCost, r.vat, r.exciseDuty, r.importDuty,
                 r.adjustedValue>>)
    /\ r.clearingFees = Whole(85000)
    /\ r.inspectionFees = Whole(15000)
    /\ r.documentationFees = Whole(25000)
    /\ r.kraFees = Whole(5000)
    /\ r.ntsa_fees = Whole(3000)
    /\ r.portHandling = Whole(12000)

C2_Witness ==
  LET r == results IN
  /\ showResults /\ r # Null
  /\ carValue = <<"2", "2">>
  /\ engineSize = "1500"
  /\ age = "2"
  /\ origin = "uk"
  /\ Truthy(kraData.importDutyRate)
  /\ Truthy(kraData.exciseDutyRate)
  /\ r.totalCost =
       Add(Whole(145000),
           SumOf(<<r.adjustedValue, r.importDuty, r.exciseDuty, r.vat,
                   r.shippingCost, r.ourServiceFee>>))

(***************************************************************************)
(* C3 (SpecCalc).  If carValue is missing, non-numeric, zero or negative,  *)
(* calculateCosts returns null.                                            *)
(***************************************************************************)
C3_NotReadyUnlessPositive ==
  (showResults /\ ~IsPositive(parseFloat(carValue))) => results = Null

(***************************************************************************)
(* C4 (Spec).  As claimed: once a breakdown is shown, a step that          *)
(* refreshes kraData or shippingRates leaves the shown breakdown           *)
(* unchanged.                                                              *)
(***************************************************************************)
RefreshStep == kraData' # kraData \/ shippingRates' # shippingRates

C4_ShownBreakdownSurvivesRefresh ==
  [][(showResults /\ RefreshStep) =>
       LET r == results IN r # Null => resultsAfter = r]_vars

(***************************************************************************)
(* C4 as amended (Spec).  The shown breakdown is recomputed by every       *)
(* render from the tables then in effect: across a refresh step it stays   *)
(* a breakdown, its shippingCost is the new table's rate for the selected  *)
(* origin, and it is unchanged exactly when that rate is unchanged (a      *)
(* kraData refresh rewrites the same three rates).                         *)
(***************************************************************************)
C4_ShownBreakdownFollowsRefresh ==
  [][(showResults /\ RefreshStep) =>
       LET r == results
           ra == resultsAfter
       IN  r # Null =>
             /\ ra # Null
             /\ ra.shippingCost = shippingRates'[origin]
             /\ (ra = r) <=> (shippingRates'[origin] = shippingRates[origin])
             /\ kraData' # kraData => ra = r]_vars

C4_Witness ==
  /\ Returned
  /\ phase = "mounted"
  /\ origin = "japan"
  /\ results.shippingCost = Whole(160000)
  /\ kraData.lastUpdated > 0

(***************************************************************************)
(* C5 (Spec).  After the teardown no fetch is in flight and no fetch has   *)
(* called a state setter.                                                  *)
(***************************************************************************)
C5_NothingInFlightAfterTeardown ==
  phase = "unmounted" => (kraInFlight = 0 /\ shipInFlight = 0 /\ ~lateSetState)

(***************************************************************************)
(* C6 (SpecCalc).  For a declared value v > 0 and valid band selectors,    *)
(* the breakdown's adjustedValue is v x multiplier x depreciationFactor of *)
(* the selected bands, which are returned as engineMultiplier and          *)
(* depreciationFactor.                                                     *)
(***************************************************************************)
C6_AdjustedValueIsProduct ==
  (showResults /\ IsPositive(parseFloat(carValue)) /\ ValidBands) =>
    LET r == results IN
    /\ r # Null
    /\ \E e \in DOMAIN engineSizeOptions, a \in DOMAIN ageOptions :
         /\ engineSizeOptions[e].value = engineSize
         /\ ageOptions[a].value = age
         /\ r.engineMultiplier = engineSizeOptions[e].multiplier
         /\ r.depreciationFactor = ageOptions[a].depreciationFactor
         /\ r.adjustedValue =
              Mul(parseFloat(carValue),
                  Mul(engineSizeOptions[e].multiplier, ageOptions[a].depreciationFactor))

C6_Witness ==
  /\ Returned
  /\ carValue = <<"2", "0">>
  /\ engineSize = "2000"
  /\ age = "10"
  /\ results.adjustedValue = Whole(18)

(***************************************************************************)
(* C7 (SpecCalc).  calculateCosts returns null when carValue is empty,     *)
(* when engineSize is empty, when age is empty, and when engineSize or age *)
(* matches no option, whatever the other inputs are.                       *)
(***************************************************************************)
C7_MissingInputIsNotReady ==
  ( /\ showResults
    /\ \/ carValue = <<>>
       \/ engineSize = ""
       \/ age = ""
       \/ engineSize \notin EngineValues
       \/ age \notin AgeValues )
  => results = Null

C7_Witness ==
  /\ showResults
  /\ IsPositive(parseFloat(carValue))
  /\ engineSize = "2000"
  /\ age = "4"
  /\ results = Null

(***************************************************************************)
(* C8 (SpecCalc).  With value and bands valid, an origin that is no key of *)
(* the shipping-rate table still gives a breakdown, with shippingCost      *)
(* 150000; an origin that is a key gives the table's rate (the tables hold *)
(* positive rates).                                                        *)
(***************************************************************************)
C8_UnknownOriginFallsBack ==
  (showResults /\ Truthy(parseFloat(carValue)) /\ ValidBands) =>
    LET r == results IN
    /\ r # Null
    /\ origin \notin DOMAIN shippingRates => r.shippingCost = Whole(150000)
    /\ origin \in DOMAIN shippingRates => r.shippingCost = shippingRates[origin]

C8_Witness ==
  LET r == results IN
  /\ showResults /\ r # Null
  /\ origin = "china"
  /\ origin \notin DOMAIN shippingRates
  /\ r.shippingCost = Whole(150000)
  /\ IsNum(r.totalCost)

(***************************************************************************)
(* C9 (SpecCalc).  Whenever the default shipping cost is substituted for   *)
(* an unknown origin, the substitution is observable: something is logged, *)
(* or the result differs from the one a table rate of 150000 for that      *)
(* origin gives.                                                           *)
(***************************************************************************)
TableWithDefaultRate ==
  [o \in DOMAIN shippingRates \cup {origin} |->
     IF o = origin THEN Whole(150000) ELSE shippingRates[o]]

C9_FallbackIsObservable ==
  (Returned /\ origin \notin DOMAIN shippingRates) =>
    \/ consoleErrors # <<>>
    \/ results # calculateCosts(carValue, engineSize, age, origin, kraData,
                                TableWithDefaultRate)

(***************************************************************************)
(* C10 (SpecCalc).  calculateCosts returns null or a breakdown all of      *)
(* whose amounts are numbers, and it returns a breakdown exactly when the  *)
(* value is a positive number and both band selectors match an option.     *)
(***************************************************************************)
AmountFields ==
  {"adjustedValue", "importDuty", "exciseDuty", "vat", "shippingCost",
   "clearingFees", "inspectionFees", "documentationFees", "kraFees",
   "ntsa_fees", "portHandling", "ourServiceFee", "totalCost"}

C10_BreakdownIffInputsValid ==
  showResults =>
    LET r == results IN
    /\ r # Null =>
         (AmountFields \subseteq DOMAIN r /\ \A f \in AmountFields : IsNum(r[f]))
    /\ (r # Null) <=> (IsPositive(parseFloat(carValue)) /\ ValidBands)

(***************************************************************************)
(* C11 (SpecCalc).  For the declared value 2,500,000, engine band '2000'   *)
(* (multiplier 1.2), age band '2' (factor 0.95), origin 'japan' at the     *)
(* rate 150,000 and duty rates 25%, 25%, 16%, calculateCosts returns       *)
(* adjustedValue 2,850,000, importDuty 712,500, exciseDuty 712,500, vat    *)
(* 684,000, ourServiceFee 85,500, fixed fees that sum to 145,000 and       *)
(* totalCost 5,339,500.                                                    *)
(***************************************************************************)
ExampleScenario ==
  /\ showResults
  /\ carValue \in ExampleValues
  /\ engineSize = "2000"
  /\ age = "2"
  /\ origin = "japan"
  /\ Lookup(shippingRates, "japan") = Whole(150000)
  /\ kraData.importDutyRate = Frac(25, 100)
  /\ kraData.exciseDutyRate = Frac(25, 100)
  /\ kraData.vatRate = Frac(16, 100)

C11_ExampleScenarioAmounts ==
  ExampleScenario =>
    LET r == results IN
    /\ r # Null
    /\ engineSizeOptions[FindOption(engineSizeOptions, engineSize)].multiplier
         = Frac(12, 10)
    /\ ageOptions[FindOption(ageOptions, age)].depreciationFactor = Frac(95, 100)
    /\ r.adjustedValue = Whole(2850000)
    /\ r.importDuty = Whole(712500)
    /\ r.exciseDuty = Whole(712500)
    /\ r.vat = Whole(684000)
    /\ r.shippingCost = Whole(150000)
    /\ r.ourServiceFee = Whole(85500)
    /\ SumOf(<<r.clearingFees, r.inspectionFees, r.documentationFees,
               r.kraFees, r.ntsa_fees, r.portHandling>>) = Whole(145000)
    /\ r.totalCost = Whole(5339500)

C11_Witness ==
  /\ ExampleScenario
  /\ results # Null
  /\ results.totalCost = Whole(5339500)

(***************************************************************************)
(* C12 (Spec).  kraData and shippingRates change only in the step in which *)
(* a fetch completes while the component is mounted; a step that starts a  *)
(* fetch (mount, interval tick, Update Rates), a completion that arrives   *)
(* after unmount and a step that logs an error from a catch branch leave   *)
(* both unchanged, and with them the breakdown computed while the refresh  *)
(* is pending.                                                             *)
(***************************************************************************)
FetchStarts == kraInFlight' > kraInFlight \/ shipInFlight' > shipInFlight

C12_PreviousTableUntilFetchCompletes ==
  [][/\ kraData' # kraData =>
          (phase = "mounted" /\ kraInFlight' = kraInFlight - 1)
     /\ shippingRates' # shippingRates =>
          (phase = "mounted" /\ shipInFlight' = shipInFlight - 1)
     /\ (FetchStarts \/ phase = "unmounted" \/ consoleErrors' # consoleErrors) =>
          /\ kraData' = kraData
          /\ shippingRates' = shippingRates
          /\ resultsAfter = results]_vars

\* a refresh is pending after an earlier one has replaced the table, and the
\* shown breakdown is computed from the table that earlier refresh left
C12_Witness ==
  /\ kraInFlight > 0
  /\ shipInFlight > 0
  /\ shipFetched
  /\ shippingRates["japan"] = Whole(160000)
  /\ origin = "japan"
  /\ Returned
  /\ results.shippingCost = Whole(160000)

(***************************************************************************)
(* C13 (SpecRefresh).  As stated: a refresh made after an earlier refresh  *)
(* leaves the refreshed data, timestamps aside, as the earlier one left    *)
(* it: the three KRA rates, shippingRates, liveArrivals without their ETAs *)
(* and marketTrends.                                                       *)
(***************************************************************************)
\* the rates of a kraData object, without lastUpdated
RatesOf(kra) == <<kra.importDutyRate, kra.exciseDutyRate, kra.vatRate>>

\* arrivals without their eta
StripEta(arrivals) ==
  [k \in DOMAIN arrivals |->
     <<arrivals[k].id, arrivals[k].vessel, arrivals[k].origin,
       arrivals[k].vehicleCount, arrivals[k].status>>]

C13_RefreshTwiceEqualsOnce ==
  [][/\ RatesOf(kraData') = RatesOf(kraData)
     /\ shipFetched => shippingRates' = shippingRates
     /\ liveArrivals # <<>> => StripEta(liveArrivals') = StripEta(liveArrivals)
     /\ marketTrends # <<>> => marketTrends' = marketTrends]_vars

(***************************************************************************)
(* C13 amended (SpecRefresh).  A refresh made after an earlier one leaves  *)
(* the KRA rates, liveArrivals without their ETAs and marketTrends as the  *)
(* earlier one left them, and what any refresh writes does not depend on   *)
(* the state before it: liveArrivals is mockArrivals at the clock reading, *)
(* and shippingRates is one of the tables fetchShippingRates can draw,     *)
(* which may differ from the table the previous refresh drew.              *)
(***************************************************************************)
C13_RefreshIndependentOfEarlierState ==
  [][/\ RatesOf(kraData') = RatesOf(kraData)
     /\ liveArrivals # <<>> => StripEta(liveArrivals') = StripEta(liveArrivals)
     /\ marketTrends # <<>> => marketTrends' = marketTrends
     /\ liveArrivals' # liveArrivals =>
          \E now \in 0..MaxTime : liveArrivals' = mockArrivals(now)
     /\ marketTrends' # marketTrends => marketTrends' = trends
     /\ shippingRates' # shippingRates => shippingRates' \in FetchedShippingRates
    ]_vars

\* both components have refreshed, the showcase at a later clock reading
C13_Witness ==
  /\ shipFetched
  /\ shippingRates["uk"] = Whole(212500)
  /\ kraData.lastUpdated > 0
  /\ liveArrivals # <<>>
  /\ liveArrivals[1].eta > 3
  /\ marketTrends = trends

Leq(x, y) == x.i < y.i \/ (x.i = y.i /\ x.n * y.d <= y.n * x.d)

\* the multiplier and the depreciation factor of the selected bands
SelectedMultiplier ==
  engineSizeOptions[FindOption(engineSizeOptions, engineSize)].multiplier

SelectedFactor == ageOptions[FindOption(ageOptions, age)].depreciationFactor

MaxMultiplier == Frac(16, 10)

PositiveValueReturned == Returned /\ IsPositive(parseFloat(carValue))

C15_AdjustedValueAtMostDeclared ==
  LET r == results
      v == parseFloat(carValue)
  IN  (PositiveValueReturned /\ Leq(SelectedFactor, Whole(1))
         /\ Leq(SelectedMultiplier, MaxMultiplier)) =>
        /\ Leq(r.adjustedValue, v)
        /\ Leq(r.adjustedValue, Mul(v, MaxMultiplier))

(***************************************************************************)
(* C15 amended (SpecCalc).  For a positive declared value v and a returned *)
(* breakdown, adjustedValue <= v x multiplier <= v x 1.6, and              *)
(* adjustedValue <= v holds exactly when multiplier x depreciationFactor   *)
(* is at most 1.                                                           *)
(***************************************************************************)
C15_AdjustedValueAtMostMaxBand ==
  LET r == results
      v == parseFloat(carValue)
  IN  PositiveValueReturned =>
        /\ Leq(r.adjustedValue, Mul(v, SelectedMultiplier))
        /\ Leq(Mul(v, SelectedMultiplier), Mul(v, MaxMultiplier))
        /\ Leq(r.adjustedValue, v)
             <=> Leq(Mul(SelectedMultiplier, SelectedFactor), Whole(1))

\* the largest band with no depreciation: adjustedValue is v x 1.6, above v
C15_Witness ==
  /\ PositiveValueReturned
  /\ engineSize = "4000"
  /\ age = "1"
  /\ results.adjustedValue = Mul(parseFloat(carValue), MaxMultiplier)
  /\ ~Leq(results.adjustedValue, parseFloat(carValue))

(***************************************************************************)
(* C16 (SpecCalc).  engineSizeOptions is in increasing order of CC         *)
(* threshold with a non-decreasing multiplier; ageOptions is in increasing *)
(* order of age with a non-increasing depreciationFactor in (0, 1]; so for *)
(* a positive declared value, selecting a higher engine band instead of    *)
(* the selected one never gives a lower adjustedValue and selecting an     *)
(* older age band never gives a higher one.                                *)
(***************************************************************************)
\* the number an option value denotes: a CC threshold, an age in years
BandNumber ==
  ("1000" :> 1000) @@ ("1500" :> 1500) @@ ("2000" :> 2000) @@ ("2500" :> 2500)
  @@ ("3000" :> 3000) @@ ("3500" :> 3500) @@ ("4000" :> 4000)
  @@ ("1" :> 1) @@ ("2" :> 2) @@ ("3" :> 3) @@ ("5" :> 5) @@ ("8" :> 8)
  @@ ("10" :> 10)

EngineBandsOrdered ==
  \A j, k \in DOMAIN engineSizeOptions :
    j < k =>
      /\ BandNumber[engineSizeOptions[j].value]
           < BandNumber[engineSizeOptions[k].value]
      /\ Leq(engineSizeOptions[j].multiplier, engineSizeOptions[k].multiplier)

AgeBandsOrdered ==
  /\ \A j, k \in DOMAIN ageOptions :
       j < k =>
         /\ BandNumber[ageOptions[j].value] < BandNumber[ageOptions[k].value]
         /\ Leq(ageOptions[k].depreciationFactor, ageOptions[j].depreciationFactor)
  /\ \A k \in DOMAIN ageOptions :
       /\ IsPositive(ageOptions[k].depreciationFactor)
       /\ Leq(ageOptions[k].depreciationFactor, Whole(1))

C16_BandTablesMonotone ==
  /\ EngineBandsOrdered
  /\ AgeBandsOrdered
  /\ PositiveValueReturned =>
       LET v == parseFloat(carValue)
           e == FindOption(engineSizeOptions, engineSize)
           a == FindOption(ageOptions, age)
           adjusted == results.adjustedValue
       IN  /\ \A k \in DOMAIN engineSizeOptions :
                k > e =>
                  Leq(adjusted,
                      AdjustedValue(v, engineSizeOptions[k].multiplier,
                                    ageOptions[a].depreciationFactor))
           /\ \A k \in DOMAIN ageOptions :
                k > a =>
                  Leq(AdjustedValue(v, engineSizeOptions[e].multiplier,
                                    ageOptions[k].depreciationFactor),
                      adjusted)

\* a middle band of each table is selected: the highest engine band gives a
\* strictly higher adjustedValue, the oldest age band a strictly lower one
C16_Witness ==
  /\ PositiveValueReturned
  /\ engineSize = "2000"
  /\ age = "3"
  /\ ~Leq(AdjustedValue(parseFloat(carValue), Frac(16, 10), Frac(90, 100)),
          results.adjustedValue)
  /\ ~Leq(results.adjustedValue,
          AdjustedValue(parseFloat(carValue), Frac(12, 10), Frac(75, 100)))

(***************************************************************************)
(* C17 (Spec).  In every reachable state of the component importDutyRate,  *)
(* exciseDutyRate and vatRate of kraData are strictly between 0 and 1.     *)
(***************************************************************************)
\* 0 < x < 1
IsProperFraction(x) == IsPositive(x) /\ ~Leq(Whole(1), x)

C17_RatesAreFractions ==
  /\ IsProperFraction(kraData.importDutyRate)
  /\ IsProperFraction(kraData.exciseDutyRate)
  /\ IsProperFraction(kraData.vatRate)

\* a fetchKRAData has written kraData at a later clock reading and a second
\* one is in flight
C17_Witness ==
  /\ kraData.lastUpdated > 0
  /\ kraInFlight > 0
  /\ kraData.importDutyRate = Frac(25, 100)
  /\ kraData.exciseDutyRate = Frac(25, 100)
  /\ kraData.vatRate = Frac(16, 100)

(***************************************************************************)
(* C18 (Spec).  While the component is on the page, loading is true        *)
(* whenever at least one fetchKRAData call is in flight and false when     *)
(* none is.                                                                *)
(***************************************************************************)
C18_LoadingTracksInFlight ==
  phase # "unmounted" => (loading <=> kraInFlight > 0)

(***************************************************************************)
(* C19 (Spec).  In every reachable state of the component origin is one of *)
(* 'japan', 'uk', 'uae' and shippingRates holds for each of them a rate in *)
(* [150000, 170000), [200000, 225000), [180000, 202000) respectively; the  *)
(* fallback to 150,000 is never taken and the shippingCost of a shown      *)
(* breakdown is the table's rate for the origin.                           *)
(***************************************************************************)
\* lo <= x < hi
InRange(x, lo, hi) == Leq(Whole(lo), x) /\ ~Leq(Whole(hi), x)

C19_FallbackNeverTaken ==
  /\ origin \in {"japan", "uk", "uae"}
  /\ DOMAIN shippingRates = {"japan", "uk", "uae"}
  /\ InRange(shippingRates["japan"], 150000, 170000)
  /\ InRange(shippingRates["uk"], 200000, 225000)
  /\ InRange(shippingRates["uae"], 180000, 202000)
  /\ Truthy(Lookup(shippingRates, origin))
  /\ showResults =>
       LET r == results IN r # Null => r.shippingCost = shippingRates[origin]

\* a breakdown is shown for uae at a rate a refresh has drawn
C19_Witness ==
  /\ Returned
  /\ origin = "uae"
  /\ shipFetched
  /\ shippingRates["uae"] = Whole(191000)
  /\ results.shippingCost = Whole(191000)

(***************************************************************************)
(* C20 (Spec).  showResults starts false, becomes true only in a           *)
(* handleCalculate step and is never reset.  While it is false the panel   *)
(* shows the placeholder, not a breakdown; once it is true the panel shows *)
(* a breakdown exactly when calculateCosts on the current inputs returns   *)
(* non-null.                                                               *)
(***************************************************************************)
C20_ShowResultsIsLatch ==
  /\ ~showResults
  /\ [][/\ showResults => showResults'
        /\ (~showResults /\ showResults') => handleCalculate]_vars
  /\ [](phase # "unmounted" =>
          /\ ~showResults => ResultsPanel = "placeholder"
          /\ showResults =>
               (ResultsPanel = "breakdown"
                  <=> calculateCosts(carValue, engineSize, age, origin, kraData,
                                     shippingRates) # Null))

\* after Calculate the engine size was cleared: showResults stays true and
\* the panel shows no breakdown
C20_Witness ==
  /\ phase = "mounted"
  /\ showResults
  /\ engineSize = ""
  /\ ResultsPanel = "nothing"

(***************************************************************************)
(* C21 (SpecHero).  After any interleaving of timer ticks, nextSlide,      *)
(* prevSlide and indicator clicks currentSlide is an integer in 0..4, the  *)
(* indices of the five carSlides; a timer tick or nextSlide leaves         *)
(* (the slide it started from + 1) mod 5, prevSlide leaves (that slide - 1 *)
(* + 5) mod 5, so 4 from 0; and prevSlide right after nextSlide leaves the *)
(* slide nextSlide started from.                                           *)
(***************************************************************************)
C21_SlideIndexInRange ==
  LET n == Len(heroLog) IN
  /\ Len(carSlides) = 5
  /\ currentSlide \in 0..4
  /\ n >= 1 =>
       /\ heroLog[n].op \in {"tick", "next"} =>
            currentSlide = (heroLog[n].from + 1) % 5
       /\ heroLog[n].op = "prev" =>
            /\ currentSlide = (heroLog[n].from - 1 + 5) % 5
            /\ heroLog[n].from = 0 => currentSlide = 4
  /\ (n >= 2 /\ heroLog[n - 1].op = "next" /\ heroLog[n].op = "prev") =>
       currentSlide = heroLog[n - 1].from

\* nextSlide from the last slide wrapped to 0 and prevSlide wrapped back to 4
C21_Witness ==
  /\ Len(heroLog) >= 2
  /\ heroLog[Len(heroLog) - 1] = [op |-> "next", from |-> 4]
  /\ heroLog[Len(heroLog)] = [op |-> "prev", from |-> 0]
  /\ currentSlide = 4

====
